---------------------------- MODULE Spec2Model ----------------------------
(***************************************************************************)
(* Model of codecarbon/core/cpu.py: the constant-power resolver TDP, the   *)
(* counter backend IntelRAPL and the logged-tool backend IntelPowerGadget. *)
(*                                                                         *)
(* Python strings are sequences of one-character strings.  An optional     *)
(* value (a Python value that may be None) is a sequence of length at most *)
(* one: <<>> is None and <<v>> is the value v.                             *)
(*                                                                         *)
(* SpecTDP, SpecRAPL and SpecPG each follow one of the three classes from  *)
(* its construction through one call of its public operation.              *)
(***************************************************************************)
EXTENDS Integers, Sequences, FiniteSets, TLC

VARIABLES
    \* ---- TDP ----
    tdp_pc,         \* "new" | "constructed" | "matched" | "raised"
    cpu_info,       \* what cpuinfo.get_cpu_info() returned
    cpu_df,         \* the reference table handed to the matcher
    consulted,      \* whether DataSource().get_cpu_power_data() was called
    match,          \* outcome of _get_matching_cpu: [greedy, model_raw, result, stage]
    tdp_obj,        \* the constructed TDP object: [model, tdp]
    \* ---- IntelRAPL ----
    rapl_pc,        \* position inside IntelRAPL.__init__ / get_cpu_details
    rapl_listing,   \* os.listdir(rapl_dir) with each entry's name file
    rapl_files,     \* self._rapl_files
    rapl_idx,       \* how many counters the running map() has processed
    rapl_trace,     \* calls made during the running sample cycle
    rapl_details,   \* cpu_details of the running / last sample
    \* ---- IntelPowerGadget ----
    pg_pc,          \* position inside IntelPowerGadget.__init__ / get_cpu_details
    pg_obj,         \* the constructed object: [system, cli]
    pg_file,        \* what is at self._log_file_path
    pg_calls,       \* number of subprocess.call invocations in this sample
    pg_returncode,  \* optional return code of the last invocation
    pg_details,     \* cpu_details returned by the last sample
    \* ---- shared ----
    log,            \* records written to the logger
    raised          \* exception that left the operation, "" if none

vars == <<tdp_pc, cpu_info, cpu_df, consulted, match, tdp_obj,
          rapl_pc, rapl_listing, rapl_files, rapl_idx, rapl_trace, rapl_details,
          pg_pc, pg_obj, pg_file, pg_calls, pg_returncode, pg_details,
          log, raised>>

tdp_vars == <<tdp_pc, cpu_info, cpu_df, consulted, match, tdp_obj>>
rapl_vars == <<rapl_pc, rapl_listing, rapl_files, rapl_idx, rapl_trace, rapl_details>>
pg_vars == <<pg_pc, pg_obj, pg_file, pg_calls, pg_returncode, pg_details>>

None == <<>>
Some(v) == <<v>>

---------------------------------------------------------------------------
(* Strings                                                                 *)

Upper == <<"A","B","C","D","E","F","G","H","I","J","K","L","M",
           "N","O","P","Q","R","S","T","U","V","W","X","Y","Z">>
Lower == <<"a","b","c","d","e","f","g","h","i","j","k","l","m",
           "n","o","p","q","r","s","t","u","v","w","x","y","z">>
Digits == <<"0","1","2","3","4","5","6","7","8","9">>

\* Code-point order of the characters a processed string can hold.
Alphabet == <<" ">> \o Digits \o <<"_">> \o Lower

Range(s) == {s[i] : i \in DOMAIN s}

IndexOf(c, s) == CHOOSE i \in DOMAIN s : s[i] = c

\* str.lower on one character
CharLower(c) == IF c \in Range(Upper) THEN Lower[IndexOf(c, Upper)] ELSE c

\* str.lower
StrLower(s) == [i \in DOMAIN s |-> CharLower(s[i])]

\* sub in s
Contains(sub, s) ==
    \E i \in 0..(Len(s) - Len(sub)) : SubSeq(s, i + 1, i + Len(sub)) = sub

IsSpace(c) == c \in {" ", "\n", "\t"}

\* str.strip()
RECURSIVE Strip(_)
Strip(s) ==
    IF s = <<>> THEN s
    ELSE IF IsSpace(Head(s)) THEN Strip(Tail(s))
    ELSE IF IsSpace(s[Len(s)]) THEN Strip(SubSeq(s, 1, Len(s) - 1))
    ELSE s

\* str.startswith
StartsWith(s, prefix) ==
    Len(prefix) <= Len(s) /\ SubSeq(s, 1, Len(prefix)) = prefix

\* str(n) for n >= 0
RECURSIVE IntToStr(_)
IntToStr(n) ==
    IF n < 10 THEN <<Digits[n + 1]>>
    ELSE IntToStr(n \div 10) \o <<Digits[(n % 10) + 1]>>

\* str.split(): the maximal runs without whitespace, in order
RECURSIVE SplitFrom(_, _)
SplitFrom(s, cur) ==
    IF s = <<>> THEN (IF cur = <<>> THEN <<>> ELSE <<cur>>)
    ELSE IF IsSpace(Head(s))
         THEN (IF cur = <<>> THEN <<>> ELSE <<cur>>) \o SplitFrom(Tail(s), <<>>)
         ELSE SplitFrom(Tail(s), Append(cur, Head(s)))

Split(s) == SplitFrom(s, <<>>)

CharOrd(c) == IndexOf(c, Alphabet)

\* s < t in Python's string order
RECURSIVE StrLess(_, _)
StrLess(s, t) ==
    IF t = <<>> THEN FALSE
    ELSE IF s = <<>> THEN TRUE
    ELSE IF Head(s) = Head(t) THEN StrLess(Tail(s), Tail(t))
    ELSE CharOrd(Head(s)) < CharOrd(Head(t))

\* sorted(set)
RECURSIVE Sorted(_)
Sorted(S) ==
    IF S = {} THEN <<>>
    ELSE LET m == CHOOSE x \in S : \A y \in S \ {x} : StrLess(x, y)
         IN  <<m>> \o Sorted(S \ {m})

\* " ".join(seq)
RECURSIVE Join(_)
Join(ss) ==
    IF ss = <<>> THEN <<>>
    ELSE IF Len(ss) = 1 THEN ss[1]
    ELSE ss[1] \o <<" ">> \o Join(Tail(ss))

Max(S) == CHOOSE x \in S : \A y \in S : y <= x


Min(S) == CHOOSE x \in S : \A y \in S : x <= y

\* the element of a one-element set
Only(S) == CHOOSE x \in S : TRUE

---------------------------------------------------------------------------
(* fuzzywuzzy, as cpu.py calls it (pure-Python difflib matcher)            *)

\* difflib.SequenceMatcher.find_longest_match over whole a and b: the
\* longest common block, the earliest in a and then the earliest in b.
LongestMatch(a, b) ==
    LET blocks == {t \in (1..Len(a)) \X (1..Len(b)) \X (1..Len(a)) :
                      /\ t[1] + t[3] - 1 <= Len(a)
                      /\ t[2] + t[3] - 1 <= Len(b)
                      /\ SubSeq(a, t[1], t[1] + t[3] - 1)
                           = SubSeq(b, t[2], t[2] + t[3] - 1)}
    IN  IF blocks = {} THEN <<0, 0, 0>>
        ELSE LET k == Max({t[3] : t \in blocks})
                 i == Min({t[1] : t \in {u \in blocks : u[3] = k}})
                 j == Min({t[2] : t \in {u \in blocks : u[3] = k /\ u[1] = i}})
             IN  <<i, j, k>>

\* Sum of the sizes of SequenceMatcher.get_matching_blocks()
RECURSIVE MatchingChars(_, _)
MatchingChars(a, b) ==
    IF a = <<>> \/ b = <<>> THEN 0
    ELSE LET m == LongestMatch(a, b)
         IN  IF m[3] = 0 THEN 0
             ELSE m[3]
                  + MatchingChars(SubSeq(a, 1, m[1] - 1), SubSeq(b, 1, m[2] - 1))
                  + MatchingChars(SubSeq(a, m[1] + m[3], Len(a)),
                                  SubSeq(b, m[2] + m[3], Len(b)))

\* utils.intr(num / den): int(round(x)), ties to the even integer
intr(num, den) ==
    LET q == num \div den
        r == num % den
    IN  IF 2 * r > den THEN q + 1
        ELSE IF 2 * r < den THEN q
        ELSE IF q % 2 = 0 THEN q ELSE q + 1

\* fuzz.ratio, with its check_for_equivalence and check_empty_string guards
ratio(s1, s2) ==
    IF s1 = s2 THEN 100
    ELSE IF Len(s1) = 0 \/ Len(s2) = 0 THEN 0
    ELSE intr(100 * 2 * MatchingChars(s1, s2), Len(s1) + Len(s2))

IsWordChar(c) == c \in Range(Upper) \cup Range(Lower) \cup Range(Digits) \cup {"_"}

\* utils.full_process: non-word characters to blanks, lower case, strip
full_process(s) ==
    Strip([i \in DOMAIN s |-> IF IsWordChar(s[i]) THEN CharLower(s[i]) ELSE " "])

\* fuzz.token_set_ratio
token_set_ratio(s1, s2) ==
    LET p1 == full_process(s1)
        p2 == full_process(s2)
    IN  IF Len(p1) = 0 \/ Len(p2) = 0 THEN 0
        ELSE LET tokens1 == Range(Split(p1))
                 tokens2 == Range(Split(p2))
                 sorted_sect == Join(Sorted(tokens1 \cap tokens2))
                 sorted_1to2 == Join(Sorted(tokens1 \ tokens2))
                 sorted_2to1 == Join(Sorted(tokens2 \ tokens1))
                 combined_1to2 == Strip(sorted_sect \o <<" ">> \o sorted_1to2)
                 combined_2to1 == Strip(sorted_sect \o <<" ">> \o sorted_2to1)
                 sect == Strip(sorted_sect)
             IN  Max({ratio(sect, combined_1to2),
                      ratio(sect, combined_2to1),
                      ratio(combined_1to2, combined_2to1)})

---------------------------------------------------------------------------
(* TDP                                                                     *)

THRESHOLD_DIRECT == 100
THRESHOLD_TOKEN_SET == 100

\* a test for None in place of the truthiness test
TruthyStr_is_not_None(o) == o # None

\* Python truthiness of an optional string / optional number
TruthyStr(o) == o # None /\ o[1] # <<>>
TruthyNum(o) == o # None /\ o[1] # 0

_detect_cpu_model(info) ==
    IF info.nonempty
    THEN (IF info.brand_raw = None THEN Some(<<>>) ELSE info.brand_raw)
    ELSE None

_get_cpu_constant_power(m, df) ==
    df[Min({i \in DOMAIN df : df[i].Name = m})].TDP

_get_cpus(df, cpu_idxs) == [k \in DOMAIN cpu_idxs |-> df[cpu_idxs[k]].Name]

\* comparing without lower()
_get_direct_matches_cased(moodel, df) ==
    [i \in DOMAIN df |-> ratio(moodel, df[i].Name)]

_get_direct_matches(moodel, df) ==
    [i \in DOMAIN df |-> ratio(StrLower(moodel), StrLower(df[i].Name))]

_get_token_set_matches(model, df) ==
    [i \in DOMAIN df |-> token_set_ratio(model, df[i].Name)]

_get_single_direct_match(ratios, max_ratio, df) ==
    df[Min({i \in DOMAIN ratios : ratios[i] = max_ratio})].Name

\* stopping at the first index that attains the maximum
_get_max_idxs_first(ratios, max_ratio) ==
    <<Min({i \in DOMAIN ratios : ratios[i] = max_ratio})>>

_get_max_idxs(ratios, max_ratio) ==
    SelectSeq([i \in DOMAIN ratios |-> i], LAMBDA idx : ratios[idx] = max_ratio)

\* The result and the stage that decided it.  (Values used more than once
\* are bound through one-element sets, which evaluates them once.)
_get_matching_cpu(model_raw, df, greedy) ==
    Only({ IF Max(Range(ratios_direct)) >= THRESHOLD_DIRECT
           THEN [result |-> Some(_get_single_direct_match(
                                   ratios_direct, Max(Range(ratios_direct)), df)),
                 stage |-> "direct"]
           ELSE IF Max(Range(ratios_token_set)) < THRESHOLD_TOKEN_SET
           THEN [result |-> None, stage |-> "token_set"]
           ELSE Only({ IF (cpu_machings # <<>> /\ Len(cpu_machings) = 1) \/ greedy
                       THEN [result |-> Some(cpu_machings[1]), stage |-> "token_set"]
                       ELSE [result |-> None, stage |-> "token_set"]
                     : cpu_machings \in
                         {_get_cpus(df, _get_max_idxs(ratios_token_set,
                                                      Max(Range(ratios_token_set))))} })
         : ratios_direct \in {_get_direct_matches(model_raw, df)},
           ratios_token_set \in {_get_token_set_matches(model_raw, df)} })

\* [matching, power]: the name matched and the optional power returned
_get_cpu_power_from_registry(cpu_model_raw, df) ==
    Only({ IF TruthyStr(cpu_matching.result)
           THEN [matching |-> cpu_matching,
                 power |-> Some(_get_cpu_constant_power(cpu_matching.result[1], df))]
           ELSE [matching |-> cpu_matching, power |-> None]
         : cpu_matching \in {_get_matching_cpu(cpu_model_raw, df, FALSE)} })

S_Unknown == <<"U","n","k","n","o","w","n">>

\* [model, tdp, log, consulted, matching] of one run of _main
_main(info, df) ==
    Only({ IF TruthyStr(cpu_model_detected)
           THEN Only({ IF TruthyNum(reg.power)
                       THEN [model |-> cpu_model_detected, tdp |-> reg.power,
                             log |-> <<[level |-> "debug", event |-> "tdp_detected"]>>,
                             consulted |-> TRUE, matching |-> reg.matching]
                       ELSE [model |-> cpu_model_detected, tdp |-> None,
                             log |-> <<[level |-> "warning", event |-> "unknown_model"]>>,
                             consulted |-> TRUE, matching |-> reg.matching]
                     : reg \in {_get_cpu_power_from_registry(cpu_model_detected[1], df)} })
           ELSE [model |-> Some(S_Unknown), tdp |-> None,
                 log |-> <<[level |-> "warning", event |-> "cpu_not_detected"]>>,
                 consulted |-> FALSE,
                 matching |-> [result |-> None, stage |-> "none"]]
         : cpu_model_detected \in {_detect_cpu_model(info)} })

\* Strings the CPU-identification facility and the reference table can hold
S_i7_h == <<"i","7"," ","h">>
S_I7_H == <<"I","7"," ","H">>
S_i7dh == <<"i","7","-","h">>
S_h_i7 == <<"h"," ","i","7">>
S_i7   == <<"i","7">>
S_i7_u == <<"i","7"," ","u">>

DetectedPool == {S_i7_h, S_I7_H, S_i7dh, S_i7_u}
RefNames == {S_i7_h, S_I7_H, S_h_i7, S_i7}
TDPValues == {0, 45, 95}
MaxEntries == 2

CpuInfos ==
    {[nonempty |-> FALSE, brand_raw |-> None], [nonempty |-> TRUE, brand_raw |-> None]}
    \cup {[nonempty |-> TRUE, brand_raw |-> Some(s)] : s \in DetectedPool}

Entries == [Name : RefNames, TDP : TDPValues]

\* DataSource().get_cpu_power_data(): the bundled table, never empty
Datasets == UNION {[1..n -> Entries] : n \in 1..MaxEntries}

\* TDP(): __init__ runs _main once and stores its pair
TDP_init ==
    /\ tdp_pc = "new"
    /\ \E info \in CpuInfos, df \in Datasets :
         \E r \in {_main(info, df)} :
             /\ cpu_info' = Some(info)
             /\ cpu_df' = df
             /\ consulted' = r.consulted
             /\ match' = IF r.consulted
                         THEN Some([greedy |-> FALSE,
                                    model_raw |-> _detect_cpu_model(info)[1],
                                    result |-> r.matching.result,
                                    stage |-> r.matching.stage])
                         ELSE None
             /\ tdp_obj' = Some([model |-> r.model[1], tdp |-> r.tdp])
             /\ log' = log \o r.log
    /\ tdp_pc' = "constructed"
    /\ UNCHANGED <<rapl_vars, pg_vars, raised>>

\* a caller's own call of _get_matching_cpu, on a table of its own and with
\* either greedy flag; max() of no ratios raises ValueError
get_matching_cpu ==
    /\ tdp_pc = "new"
    /\ \E model_raw \in DetectedPool, df \in Datasets \cup {<<>>}, greedy \in BOOLEAN :
         IF df = <<>>
         THEN /\ raised' = "ValueError"
              /\ tdp_pc' = "raised"
              /\ UNCHANGED <<cpu_df, match>>
         ELSE \E r \in {_get_matching_cpu(model_raw, df, greedy)} :
                 /\ cpu_df' = df
                 /\ match' = Some([greedy |-> greedy, model_raw |-> model_raw,
                                   result |-> r.result, stage |-> r.stage])
                 /\ tdp_pc' = "matched"
                 /\ UNCHANGED raised
    /\ UNCHANGED <<cpu_info, consulted, tdp_obj, rapl_vars, pg_vars, log>>

---------------------------------------------------------------------------
(* IntelRAPL                                                               *)

S_linux  == <<"l","i","n","u","x">>
S_darwin == <<"d","a","r","w","i","n">>
S_win32  == <<"w","i","n","3","2">>
Systems == {S_linux, S_darwin, S_win32}

\* self._delay = 0.01 seconds, in milliseconds
_delay == 10

\* contents of the name files, and an entry of the root that is no domain
S_package_0 == <<"p","a","c","k","a","g","e","-","0","\n">>
S_package_1 == <<"p","a","c","k","a","g","e","-","1","\n">>
S_dram      == <<"d","r","a","m","\n">>
S_package   == <<"p","a","c","k","a","g","e">>
S_enabled   == <<"e","n","a","b","l","e","d">>
S_intel_rapl == <<"i","n","t","e","l","-","r","a","p","l">>

DomainNames == {S_package_0, S_package_1, S_dram}
MaxDomains == 3

\* os.listdir(rapl_dir) in the order it returns the entries, each with the
\* contents of its name file: domain directories intel-rapl:<k> and plain entries
ListingEntry(k, kind) ==
    IF kind = S_enabled
    THEN [file |-> S_enabled \o IntToStr(k), name |-> <<>>]
    ELSE [file |-> S_intel_rapl \o <<":">> \o IntToStr(k), name |-> kind]

Listings ==
    UNION {{[k \in 1..n |-> ListingEntry(k - 1, kinds[k])] :
               kinds \in [1..n -> DomainNames \cup {S_enabled}]} : n \in 0..MaxDomains}

\* codecarbon.core.rapl.RAPLFile: a named counter behind an energy file
RAPLFile(name, path) ==
    [name |-> name, path |-> path, started |-> FALSE, power_measurement |-> None]

\* RAPLFile.start(): records the counter's current value
RAPLFile_start(rf) == [rf EXCEPT !.started = TRUE]

\* RAPLFile.end(delay): reads the counter again and derives the power over delay
RAPLFile_end(rf, delay) ==
    [rf EXCEPT !.power_measurement = Some([over_ms |-> delay])]

_is_platform_supported(system) == StartsWith(system, <<"l","i","n">>)

\* f"Processor Power_{i}(Watt)"
ProcessorPowerLabel(i) ==
    <<"P","r","o","c","e","s","s","o","r"," ","P","o","w","e","r","_">>
        \o IntToStr(i) \o <<"(","W","a","t","t",")">>

\* the loop without i += 1
RECURSIVE FetchLoop_no_increment(_, _)
FetchLoop_no_increment(files, i) ==
    IF files = <<>> THEN <<>>
    ELSE LET file == Head(files)
             name == Strip(file.name)
             path == file.file \o <<"/">> \o <<"e","n","e","r","g","y","_","u","j">>
         IN  IF Contains(S_package, name)
             THEN <<RAPLFile(ProcessorPowerLabel(i), path)>>
                  \o FetchLoop_no_increment(Tail(files), i)
             ELSE <<RAPLFile(name, path)>> \o FetchLoop_no_increment(Tail(files), i)

\* the loop of _fetch_rapl_files over files, from package index i
RECURSIVE FetchLoop(_, _)
FetchLoop(files, i) ==
    IF files = <<>> THEN <<>>
    ELSE LET file == Head(files)
             name == Strip(file.name)
             path == file.file \o <<"/">> \o <<"e","n","e","r","g","y","_","u","j">>
         IN  IF Contains(S_package, name)
             THEN <<RAPLFile(ProcessorPowerLabel(i), path)>>
                  \o FetchLoop(Tail(files), i + 1)
             ELSE <<RAPLFile(name, path)>> \o FetchLoop(Tail(files), i)

_fetch_rapl_files(listing) ==
    FetchLoop(SelectSeq(listing, LAMBDA x : Contains(<<":">>, x.file)), 0)

\* IntelRAPL(): __init__ with _setup_rapl
IntelRAPL_init ==
    /\ rapl_pc = "new"
    /\ \E system \in Systems, exists \in BOOLEAN, listing \in Listings :
         IF ~_is_platform_supported(system)
         THEN /\ raised' = "SystemError"
              /\ rapl_pc' = "failed"
              /\ UNCHANGED <<rapl_listing, rapl_files>>
         ELSE IF ~exists
         THEN /\ raised' = "FileNotFoundError"
              /\ rapl_pc' = "failed"
              /\ UNCHANGED <<rapl_listing, rapl_files>>
         ELSE /\ rapl_listing' = listing
              /\ rapl_files' = _fetch_rapl_files(listing)
              /\ rapl_pc' = "ready"
              /\ UNCHANGED raised
    /\ UNCHANGED <<rapl_idx, rapl_trace, rapl_details, tdp_vars, pg_vars, log>>

\* what reading an energy file can raise
ReadErrors == {"FileNotFoundError", "PermissionError", "ValueError"}

\* an except clause that names one exception type
Caught_FileNotFoundError_only(e) == e = "FileNotFoundError"

\* except Exception: every exception a read raises is caught
Caught(e) == TRUE

\* sleeping as soon as one counter was started
StartsDone_after_first == rapl_idx >= 1 \/ rapl_idx = Len(rapl_files)

\* the first map() has consumed every counter
StartsDone == rapl_idx = Len(rapl_files)

\* an exception e leaves the try block of get_cpu_details at counter k
RaplFail(phase, k, e) ==
    /\ rapl_trace' = Append(rapl_trace, [op |-> "raise", phase |-> phase, k |-> k])
    /\ IF Caught(e)
       THEN /\ log' = Append(log, [level |-> "info", event |-> "rapl_read_failed"])
            /\ rapl_pc' = "returned"
            /\ UNCHANGED raised
       ELSE /\ raised' = e
            /\ rapl_pc' = "raised"
            /\ UNCHANGED log
    /\ UNCHANGED <<rapl_listing, rapl_files, rapl_idx, rapl_details, tdp_vars, pg_vars>>

\* get_cpu_details: cpu_details = dict() and entry into the try block
Rapl_begin ==
    /\ rapl_pc = "ready"
    /\ rapl_pc' = "start"
    /\ rapl_details' = <<>>
    /\ rapl_idx' = 0
    /\ rapl_trace' = <<>>
    /\ UNCHANGED <<rapl_listing, rapl_files, tdp_vars, pg_vars, log, raised>>

\* one step of list(map(lambda rapl_file: rapl_file.start(), ...))
Rapl_start ==
    /\ rapl_pc = "start"
    /\ ~StartsDone
    /\ \/ /\ rapl_files' = [rapl_files EXCEPT
                               ![rapl_idx + 1] = RAPLFile_start(rapl_files[rapl_idx + 1])]
          /\ rapl_idx' = rapl_idx + 1
          /\ rapl_trace' = Append(rapl_trace, [op |-> "start", k |-> rapl_idx + 1])
          /\ UNCHANGED <<rapl_pc, rapl_listing, rapl_details, tdp_vars, pg_vars, log, raised>>
       \/ \E e \in ReadErrors : RaplFail("start", rapl_idx + 1, e)

\* time.sleep(self._delay)
Rapl_sleep ==
    /\ rapl_pc = "start"
    /\ StartsDone
    /\ rapl_pc' = "end"
    /\ rapl_idx' = 0
    /\ rapl_trace' = Append(rapl_trace, [op |-> "sleep", delay |-> _delay])
    /\ UNCHANGED <<rapl_listing, rapl_files, rapl_details, tdp_vars, pg_vars, log, raised>>

\* one step of list(map(lambda rapl_file: rapl_file.end(self._delay), ...))
Rapl_end ==
    /\ rapl_pc = "end"
    /\ rapl_idx < Len(rapl_files)
    /\ \/ /\ rapl_files' = [rapl_files EXCEPT
                               ![rapl_idx + 1] = RAPLFile_end(rapl_files[rapl_idx + 1], _delay)]
          /\ rapl_idx' = rapl_idx + 1
          /\ rapl_trace' = Append(rapl_trace,
                                  [op |-> "end", k |-> rapl_idx + 1, delay |-> _delay])
          /\ UNCHANGED <<rapl_pc, rapl_listing, rapl_details, tdp_vars, pg_vars, log, raised>>
       \/ \E e \in ReadErrors : RaplFail("end", rapl_idx + 1, e)

\* the for loop filling cpu_details: a later counter of a name overwrites
CollectDetails(files) ==
    [nm \in {files[k].name : k \in DOMAIN files} |->
        files[Max({k \in DOMAIN files : files[k].name = nm})].power_measurement]

\* the for loop and the return
Rapl_collect ==
    /\ rapl_pc = "end"
    /\ rapl_idx = Len(rapl_files)
    /\ rapl_details' = CollectDetails(rapl_files)
    /\ rapl_pc' = "returned"
    /\ UNCHANGED <<rapl_listing, rapl_files, rapl_idx, rapl_trace, tdp_vars, pg_vars,
                   log, raised>>

---------------------------------------------------------------------------
(* IntelPowerGadget                                                        *)

_osx_exec == "PowerLog"
_osx_exec_backup == "/Applications/Intel Power Gadget/PowerLog"
_windows_exec == "PowerLog3.0.exe"
_windows_exec_backup == "C:\\Program Files\\Intel\\Power Gadget 3.5\\PowerLog3.0.exe"

\* _setup_cli, given what shutil.which finds: [cli, raised]
_setup_cli(system, on_path, backup_found) ==
    IF StartsWith(system, <<"w","i","n">>)
    THEN IF on_path THEN [cli |-> "which(PowerLog3.0.exe)", raised |-> ""]
         ELSE IF backup_found THEN [cli |-> _windows_exec_backup, raised |-> ""]
         ELSE [cli |-> "", raised |-> "FileNotFoundError"]
    ELSE IF StartsWith(system, S_darwin)
    THEN IF on_path THEN [cli |-> _osx_exec, raised |-> ""]
         ELSE IF backup_found THEN [cli |-> _osx_exec_backup, raised |-> ""]
         ELSE [cli |-> "", raised |-> "FileNotFoundError"]
    ELSE [cli |-> "", raised |-> "SystemError"]

\* IntelPowerGadget(): __init__ with _setup_cli
IntelPowerGadget_init ==
    /\ pg_pc = "new"
    /\ \E system \in Systems, on_path \in BOOLEAN, backup_found \in BOOLEAN :
         \E r \in {_setup_cli(system, on_path, backup_found)} :
            IF r.raised = ""
            THEN /\ pg_obj' = Some([system |-> system, cli |-> r.cli])
                 /\ pg_pc' = "ready"
                 /\ UNCHANGED raised
            ELSE /\ raised' = r.raised
                 /\ pg_pc' = "failed"
                 /\ UNCHANGED pg_obj
    /\ UNCHANGED <<pg_file, pg_calls, pg_returncode, pg_details, tdp_vars, rapl_vars, log>>

\* A float is <<numerator, denominator>> in lowest terms; NaN is <<0, 0>>.
NaN == <<0, 0>>

RECURSIVE GCD(_, _)
GCD(a, b) == IF b = 0 THEN a ELSE GCD(b, a % b)

Norm(num, den) == <<num \div GCD(num, den), den \div GCD(num, den)>>

RECURSIVE SumOf(_)
SumOf(col) ==
    IF col = <<>> THEN <<0, 1>>
    ELSE LET rest == SumOf(Tail(col))
         IN  Norm(Head(col)[1] * rest[2] + rest[1] * Head(col)[2], Head(col)[2] * rest[2])

\* the sum without the division by the number of rows
mean_undivided(col) == IF col = <<>> THEN NaN ELSE SumOf(col)

\* Series.mean(): NaN for a column without rows
mean(col) ==
    IF col = <<>> THEN NaN
    ELSE Norm(SumOf(col)[1], SumOf(col)[2] * Len(col))

S_SystemTime == <<"S","y","s","t","e","m"," ","T","i","m","e">>
S_ElapsedTime == <<"E","l","a","p","s","e","d"," ","T","i","m","e"," ","(","s","e","c",")">>
S_RDTSC == <<"R","D","T","S","C">>
S_Cumulative == <<"C","u","m","u","l","a","t","i","v","e">>
S_CumEnergy == <<"C","u","m","u","l","a","t","i","v","e"," ","P","r","o","c","e","s","s","o","r",
                 " ","E","n","e","r","g","y","_","0","(","J","o","u","l","e","s",")">>
S_Power == ProcessorPowerLabel(0)

\* what the tool may leave at the log path
Headers ==
    {<<S_SystemTime, S_Power>>, <<S_ElapsedTime, S_CumEnergy>>, <<S_RDTSC, S_Power>>,
     <<S_Power, S_CumEnergy>>, <<S_CumEnergy, S_Power>>}
Cells == {<<1, 1>>, <<2, 1>>, NaN}
MaxRows == 2
ReturnCodes == {0, 1}

Tables ==
    UNION {{[kind |-> "csv", columns |-> h, rows |-> rows] :
               rows \in UNION {[1..n -> [1..Len(h) -> Cells]] : n \in 0..MaxRows}} :
           h \in Headers}

LogFiles ==
    {None, Some([kind |-> "malformed", columns |-> <<>>, rows |-> <<>>])}
    \cup {Some(t) : t \in Tables}

\* raising on a nonzero return code, as subprocess.check_call does
_log_values_check_call(system, returncode) ==
    IF StartsWith(system, <<"w","i","n">>) \/ StartsWith(system, S_darwin)
    THEN [calls |-> 1, raised |-> IF returncode # 0 THEN "CalledProcessError" ELSE "",
          log |-> <<>>]
    ELSE [calls |-> 0, raised |-> "", log |-> <<>>]

\* _log_values on one run of the tool: [calls, raised, log]
_log_values(system, returncode) ==
    IF StartsWith(system, <<"w","i","n">>) \/ StartsWith(system, S_darwin)
    THEN [calls |-> 1, raised |-> "",
          log |-> IF returncode # 0
                  THEN <<[level |-> "warning", event |-> "powergadget_returncode"]>>
                  ELSE <<>>]
    ELSE [calls |-> 0, raised |-> "", log |-> <<>>]

\* DataFrame.dropna(): the rows without a missing value
dropna(rows) == SelectSeq(rows, LAMBDA row : \A j \in DOMAIN row : row[j] # NaN)

\* the loop over cpu_data.columns from column j on: [details, failed]
RECURSIVE AggLoop(_, _, _, _)
AggLoop(columns, rows, j, cpu_details) ==
    IF j > Len(columns) THEN [details |-> cpu_details, failed |-> FALSE]
    ELSE LET col_name == columns[j]
             col == [r \in DOMAIN rows |-> rows[r][j]]
         IN  IF col_name \in {S_SystemTime, S_ElapsedTime, S_RDTSC}
             THEN AggLoop(columns, rows, j + 1, cpu_details)
             ELSE IF Contains(S_Cumulative, col_name)
             THEN IF col = <<>>
                  THEN [details |-> cpu_details, failed |-> TRUE]
                  ELSE AggLoop(columns, rows, j + 1,
                               (col_name :> col[Len(col)]) @@ cpu_details)
             ELSE AggLoop(columns, rows, j + 1, (col_name :> mean(col)) @@ cpu_details)

\* the try block of get_cpu_details on the file at the log path
ReadLog(file) ==
    IF file = None \/ file[1].kind # "csv"
    THEN [details |-> <<>>, failed |-> TRUE]
    ELSE AggLoop(file[1].columns, dropna(file[1].rows), 1, <<>>)

\* get_cpu_details: self._log_values()
PG_log_values ==
    /\ pg_pc = "ready"
    /\ \E returncode \in ReturnCodes, file \in LogFiles :
         \E r \in {_log_values(pg_obj[1].system, returncode)} :
            /\ pg_calls' = pg_calls + r.calls
            /\ pg_returncode' = Some(returncode)
            /\ pg_file' = file
            /\ log' = log \o r.log
            /\ raised' = r.raised
            /\ pg_pc' = IF r.raised = "" THEN "logged" ELSE "raised"
    /\ UNCHANGED <<pg_obj, pg_details, tdp_vars, rapl_vars>>

\* get_cpu_details: the try block, its handler and the return
PG_read_log ==
    /\ pg_pc = "logged"
    /\ \E r \in {ReadLog(pg_file)} :
         /\ pg_details' = r.details
         /\ log' = IF r.failed
                   THEN Append(log, [level |-> "info", event |-> "powergadget_read_failed"])
                   ELSE log
    /\ pg_pc' = "returned"
    /\ UNCHANGED <<pg_obj, pg_file, pg_calls, pg_returncode, tdp_vars, rapl_vars, raised>>

---------------------------------------------------------------------------
Init ==
    /\ tdp_pc = "new"
    /\ cpu_info = None
    /\ cpu_df = <<>>
    /\ consulted = FALSE
    /\ match = None
    /\ tdp_obj = None
    /\ rapl_pc = "new"
    /\ rapl_listing = <<>>
    /\ rapl_files = <<>>
    /\ rapl_idx = 0
    /\ rapl_trace = <<>>
    /\ rapl_details = <<>>
    /\ pg_pc = "new"
    /\ pg_obj = None
    /\ pg_file = None
    /\ pg_calls = 0
    /\ pg_returncode = None
    /\ pg_details = <<>>
    /\ log = <<>>
    /\ raised = ""

NextTDP == TDP_init \/ get_matching_cpu

SpecTDP == Init /\ [][NextTDP]_vars

NextRAPL ==
    IntelRAPL_init \/ Rapl_begin \/ Rapl_start \/ Rapl_sleep \/ Rapl_end \/ Rapl_collect

SpecRAPL == Init /\ [][NextRAPL]_vars

NextPG == IntelPowerGadget_init \/ PG_log_values \/ PG_read_log

SpecPG == Init /\ [][NextPG]_vars

---------------------------------------------------------------------------
(* Claims about TDP                                                        *)

\* the call whose outcome the state records
TheMatch == match[1]

DirectRatioAt(i) ==
    ratio(StrLower(TheMatch.model_raw), StrLower(cpu_df[i].Name))

TokenSetRatioAt(i) == token_set_ratio(TheMatch.model_raw, cpu_df[i].Name)

\* the token-set ratio of every entry, in table order
TokenSetRatios == [i \in DOMAIN cpu_df |-> TokenSetRatioAt(i)]

MaxOf(ratios) == Max(Range(ratios))

EntriesAt(ratios, r) == {i \in DOMAIN ratios : ratios[i] = r}

NoDirectMatch == \A i \in DOMAIN cpu_df : DirectRatioAt(i) # 100

EqualIgnoringCase ==
    {i \in DOMAIN cpu_df : StrLower(cpu_df[i].Name) = StrLower(TheMatch.model_raw)}

\* C1: when no reference name has a direct ratio of 100, the matcher returns
\* no match if the maximum token-set ratio is below 100, the one entry that
\* attains the maximum if there is exactly one, and with several entries at
\* the maximum no match without greedy and the first of them with greedy.
C1_TokenSetStage ==
    (match # None /\ NoDirectMatch) =>
        \A ratios \in {TokenSetRatios} :
            \A best \in {EntriesAt(ratios, MaxOf(ratios))} :
                /\ MaxOf(ratios) < 100 => TheMatch.result = None
                /\ (MaxOf(ratios) >= 100 /\ Cardinality(best) = 1) =>
                      TheMatch.result = Some(cpu_df[Only(best)].Name)
                /\ (MaxOf(ratios) >= 100 /\ Cardinality(best) > 1) =>
                      /\ ~TheMatch.greedy => TheMatch.result = None
                      /\ TheMatch.greedy =>
                            TheMatch.result = Some(cpu_df[Min(best)].Name)

\* a greedy call with two entries at token-set ratio 100 and no direct match
C1_Witness ==
    /\ match # None
    /\ NoDirectMatch
    /\ Len(cpu_df) = 2
    /\ TokenSetRatioAt(1) = 100
    /\ TokenSetRatioAt(2) = 100
    /\ TheMatch.greedy
    /\ TheMatch.result = Some(cpu_df[1].Name)
    /\ cpu_df[1].Name # cpu_df[2].Name

\* C2: if some reference name equals the detected string ignoring case, the
\* matcher returns the first such entry in table order, whatever the token-set
\* ratios and the greedy flag; the token-set stage decides only when no
\* entry has a direct ratio of 100.
C2_DirectPriority ==
    match # None =>
        /\ EqualIgnoringCase # {} =>
              /\ TheMatch.result = Some(cpu_df[Min(EqualIgnoringCase)].Name)
              /\ TheMatch.stage = "direct"
        /\ TheMatch.stage = "token_set" => NoDirectMatch

\* the second entry equals the detected string up to case while the first one
\* has a token-set ratio of 100 too
C2_Witness ==
    /\ match # None
    /\ Len(cpu_df) = 2
    /\ EqualIgnoringCase = {2}
    /\ cpu_df[2].Name # TheMatch.model_raw
    /\ TokenSetRatioAt(1) = 100
    /\ TheMatch.result = Some(cpu_df[2].Name)

\* what the CPU-identification facility yielded, as _main reads it
NoModelString ==
    \/ ~cpu_info[1].nonempty
    \/ cpu_info[1].brand_raw = None
    \/ cpu_info[1].brand_raw = Some(<<>>)

\* C3: whenever matching selected an entry, the constructed object holds the
\* detected string and the TDP value of the selected entry; tdp is not absent.
C3_SelectedEntryResolved ==
    (tdp_pc = "constructed" /\ match # None /\ TheMatch.result # None) =>
        /\ tdp_obj[1].model = TheMatch.model_raw
        /\ tdp_obj[1].tdp # None
        /\ \E i \in DOMAIN cpu_df :
              /\ cpu_df[i].Name = TheMatch.result[1]
              /\ tdp_obj[1].tdp = Some(cpu_df[i].TDP)

\* C4: a construction never raises; with no model string the object is
\* ("Unknown", absent), the table is not consulted and a warning is logged;
\* with a model string and no match it is (detected, absent) with a warning.
C4_FailureOutcomes ==
    tdp_pc = "constructed" =>
        /\ raised = ""
        /\ NoModelString =>
              /\ tdp_obj = Some([model |-> S_Unknown, tdp |-> None])
              /\ ~consulted
              /\ log = <<[level |-> "warning", event |-> "cpu_not_detected"]>>
        /\ (~NoModelString /\ TheMatch.result = None) =>
              /\ tdp_obj = Some([model |-> cpu_info[1].brand_raw[1], tdp |-> None])
              /\ consulted
              /\ log = <<[level |-> "warning", event |-> "unknown_model"]>>

\* a detected model that no entry of the table matches
C4_Witness ==
    /\ tdp_pc = "constructed"
    /\ ~NoModelString
    /\ TheMatch.result = None
    /\ tdp_obj[1].tdp = None
    /\ tdp_obj[1].model = cpu_info[1].brand_raw[1]

\* the facility yields nothing and the object is ("Unknown", absent)
C4_WitnessUnknown ==
    /\ tdp_pc = "constructed"
    /\ NoModelString
    /\ tdp_obj[1].model = S_Unknown

---------------------------------------------------------------------------
(* Claims about IntelRAPL                                                  *)

StartedBefore(p) ==
    {rapl_trace[q].k : q \in {r \in 1..(p - 1) : rapl_trace[r].op = "start"}}

\* C5: in a sample cycle the sleep begins only after start was called on every
\* counter, a counter is stopped only after the sleep and after every counter
\* was started, and every stop receives the same delay, the fixed 10 ms.
C5_SharedWindow ==
    \A p \in DOMAIN rapl_trace :
        /\ rapl_trace[p].op = "sleep" =>
              /\ StartedBefore(p) = DOMAIN rapl_files
              /\ rapl_trace[p].delay = 10
        /\ rapl_trace[p].op = "end" =>
              /\ StartedBefore(p) = DOMAIN rapl_files
              /\ \E q \in 1..(p - 1) :
                    /\ rapl_trace[q].op = "sleep"
                    /\ rapl_trace[q].delay = rapl_trace[p].delay
              /\ rapl_trace[p].delay = 10

\* a complete cycle over at least two counters
C5_Witness ==
    /\ rapl_pc = "returned"
    /\ Len(rapl_files) >= 2
    /\ Len(rapl_trace) = 2 * Len(rapl_files) + 1
    /\ rapl_trace[Len(rapl_trace)].op = "end"

\* C6: an exception raised while starting or stopping a counter never leaves
\* get_cpu_details: the failure is logged and the mapping returned has no
\* entry for the failing counter.
C6_ReadFailureSwallowed ==
    \A p \in DOMAIN rapl_trace :
        rapl_trace[p].op = "raise" =>
            /\ raised = ""
            /\ rapl_pc = "returned"
            /\ \E l \in DOMAIN log : log[l] = [level |-> "info", event |-> "rapl_read_failed"]
            /\ rapl_files[rapl_trace[p].k].name \notin DOMAIN rapl_details

\* the second counter fails to stop after the first one was stopped
C6_Witness ==
    /\ rapl_pc = "returned"
    /\ rapl_trace # <<>>
    /\ rapl_trace[Len(rapl_trace)] = [op |-> "raise", phase |-> "end", k |-> 2]
    /\ rapl_files[1].power_measurement # None
    /\ DOMAIN rapl_details = {}

\* the entries of the root that are domains, in listing order
ListedDomains == SelectSeq(rapl_listing, LAMBDA x : ":" \in Range(x.file))

IsPackage(d) == Contains(S_package, d.name)

Constructed == rapl_pc \notin {"new", "failed"}

SampleSucceeded ==
    /\ rapl_pc = "returned"
    /\ \A p \in DOMAIN rapl_trace : rapl_trace[p].op # "raise"

S_PP0 == <<"P","r","o","c","e","s","s","o","r"," ","P","o","w","e","r","_","0",
           "(","W","a","t","t",")">>
S_PP1 == <<"P","r","o","c","e","s","s","o","r"," ","P","o","w","e","r","_","1",
           "(","W","a","t","t",")">>

\* C7: exactly the root entries with ':' in their identifier become counters;
\* the i-th package domain in listing order (from 0) is named
\* "Processor Power_<i>(Watt)", so package domains get distinct labels; any
\* other domain keeps its declared name; and the root package-0, package-1,
\* dram samples to exactly the keys Processor Power_0(Watt),
\* Processor Power_1(Watt) and dram.
C7_DomainNaming ==
    Constructed =>
        /\ Len(rapl_files) = Len(ListedDomains)
        /\ \A k \in DOMAIN rapl_files :
              IF IsPackage(ListedDomains[k])
              THEN rapl_files[k].name =
                     ProcessorPowerLabel(
                        Cardinality({j \in 1..(k - 1) : IsPackage(ListedDomains[j])}))
              ELSE rapl_files[k].name \o <<"\n">> = ListedDomains[k].name
        /\ \A j, k \in DOMAIN rapl_files :
              (j # k /\ IsPackage(ListedDomains[j]) /\ IsPackage(ListedDomains[k]))
                 => rapl_files[j].name # rapl_files[k].name
        /\ ( /\ SampleSucceeded
             /\ Len(ListedDomains) = 3
             /\ {ListedDomains[k].name : k \in 1..3} = {S_package_0, S_package_1, S_dram} )
           => DOMAIN rapl_details = {S_PP0, S_PP1, <<"d","r","a","m">>}

\* the root package-0, package-1, dram was sampled
C7_Witness ==
    /\ SampleSucceeded
    /\ [k \in 1..Len(rapl_listing) |-> rapl_listing[k].name]
          = <<S_package_0, S_package_1, S_dram>>
    /\ rapl_files[2].name = S_PP1
    /\ DOMAIN rapl_details = {S_PP0, S_PP1, <<"d","r","a","m">>}

---------------------------------------------------------------------------
(* Claims about IntelPowerGadget                                           *)

ReadFailed ==
    \E l \in DOMAIN log : log[l] = [level |-> "info", event |-> "powergadget_read_failed"]

\* the rows of the log that have no missing value
KeptRows ==
    LET rows == pg_file[1].rows
        keep == {r \in DOMAIN rows : \A j \in DOMAIN rows[r] : rows[r][j] # NaN}
        F[n \in 0..Len(rows)] ==
            IF n = 0 THEN <<>>
            ELSE IF n \in keep THEN Append(F[n - 1], rows[n]) ELSE F[n - 1]
    IN  F[Len(rows)]

RECURSIVE SumNumerators(_, _)
SumNumerators(rows, j) ==
    IF rows = <<>> THEN 0 ELSE Head(rows)[j][1] + SumNumerators(Tail(rows), j)

\* C8: for a log that was read and aggregated without failure, the result has
\* no key System Time, Elapsed Time (sec) or RDTSC and exactly one entry per
\* other column: the last kept row's value when the column name contains
\* "Cumulative", the arithmetic mean over the kept rows otherwise.
C8_Aggregation ==
    (pg_pc = "returned" /\ ~ReadFailed) =>
        LET columns == pg_file[1].columns
            reported == {j \in DOMAIN columns :
                            columns[j] \notin {S_SystemTime, S_ElapsedTime, S_RDTSC}}
        IN  /\ DOMAIN pg_details = {columns[j] : j \in reported}
            /\ \A j \in reported :
                  LET v == pg_details[columns[j]]
                  IN  IF Contains(S_Cumulative, columns[j])
                      THEN v = KeptRows[Len(KeptRows)][j]
                      ELSE IF KeptRows = <<>> THEN v = NaN
                      ELSE /\ v[2] > 0
                           /\ v[1] * Len(KeptRows) = v[2] * SumNumerators(KeptRows, j)

\* two kept rows 1, 2 under a plain and a cumulative column: mean 3/2, last 2
C8_Witness ==
    /\ pg_pc = "returned"
    /\ ~ReadFailed
    /\ pg_file[1].columns = <<S_Power, S_CumEnergy>>
    /\ pg_file[1].rows = <<(<<(<<1, 1>>), (<<1, 1>>)>>), (<<(<<2, 1>>), (<<2, 1>>)>>)>>
    /\ pg_details[S_Power] = <<3, 2>>
    /\ pg_details[S_CumEnergy] = <<2, 1>>

\* C9: whenever reading or aggregating the log fails, nothing is raised, the
\* failure is logged and the mapping returned is empty.
C9_ParseFailureEmpty ==
    (pg_pc = "returned" /\ ReadFailed) =>
        /\ raised = ""
        /\ DOMAIN pg_details = {}

\* C10: the tool is invoked exactly once, before the log is read; a nonzero
\* exit code logs a warning, raises nothing, and the log at the output path is
\* still read, so the result is what that log yields.
C10_ToolFailureNotFatal ==
    /\ pg_pc \in {"new", "ready", "failed"} => (pg_calls = 0 /\ pg_details = <<>> /\ ~ReadFailed)
    /\ pg_pc = "logged" => (pg_calls = 1 /\ pg_details = <<>> /\ ~ReadFailed)
    /\ pg_pc = "returned" => pg_calls = 1
    /\ (pg_returncode # None /\ pg_returncode # Some(0)) =>
          /\ raised = ""
          /\ pg_pc \in {"logged", "returned"}
          /\ \E l \in DOMAIN log :
                log[l] = [level |-> "warning", event |-> "powergadget_returncode"]
          /\ pg_pc = "returned" =>
                /\ (pg_file = None \/ pg_file[1].kind # "csv") => DOMAIN pg_details = {}
                /\ (pg_file # None /\ pg_file[1].kind = "csv" /\ KeptRows # <<>>) =>
                      DOMAIN pg_details =
                         Range(pg_file[1].columns) \ {S_SystemTime, S_ElapsedTime, S_RDTSC}

\* the tool exited with code 1 and the log it left was aggregated
C10_Witness ==
    /\ pg_pc = "returned"
    /\ pg_returncode = Some(1)
    /\ pg_calls = 1
    /\ ~ReadFailed
    /\ DOMAIN pg_details # {}

=============================================================================
